---- MODULE Spec2Model ----
(***************************************************************************)
(* Voice-agent gateway: the per-call media bridge (app/routers/dialer.py), *)
(* the call-context store (app/services/dialers/context.py), the reference *)
(* dialer's codec and message builder, and the agent stream as the bridge  *)
(* sees it.                                                                *)
(***************************************************************************)
EXTENDS Integers, Sequences, FiniteSets, TLC

(* ------------------------------ bounds -------------------------------- *)
\* inputs one bridge receives from its two peers: dialer messages and agent
\* events together
MaxInputs == 3
\* entries in the log of one agent stream object
MaxAgentLog == 5
\* POST /{dialer}/outbound-call requests answered
MaxRequests == 2
\* messages given to the parsers
MaxParsed == 2

(* ---------------------------- value universe -------------------------- *)
None == "None"
CallIds == {"CA1", "CA2"}
StreamIds == {"MZ1"}
Bridges == {"b1"}
DialerNames == {"twilio", "Twilio", "plivo"}
DEFAULT_AGENT_ID == "agent_7201keyx3brmfk68gdwytc6a4tna"

\* Python values held in the dictionaries: a str, a bool, or no entry
Str(s) == [t |-> "str", s |-> s, b |-> FALSE]
Bool(b) == [t |-> "bool", s |-> "", b |-> b]
Absent == [t |-> "absent", s |-> "", b |-> FALSE]
Keys == {"agent_id", "to_number", "eligible"}
EmptyDict == [k \in Keys |-> Absent]
DictIsEmpty(d) == \A k \in Keys : d[k] = Absent

\* customParameters a start event may carry
ParamsNone == EmptyDict
ParamsNoAgent == [EmptyDict EXCEPT !["to_number"] = Str("+15550300"),
                                   !["eligible"] = Str("false")]
ParamsWithAgent == [EmptyDict EXCEPT !["agent_id"] = Str("AG1"),
                                     !["eligible"] = Str("true")]
CustomParams == {ParamsNone, ParamsNoAgent, ParamsWithAgent}

\* a context dict, or None (some = FALSE); agent_provider is the provider
\* the context names, "" when it names none
NoContext == [some |-> FALSE, agent_id |-> "", dynamic_variables |-> EmptyDict,
              agent_provider |-> ""]
MkContext(a, dv) == [some |-> TRUE, agent_id |-> a, dynamic_variables |-> dv,
                     agent_provider |-> ""]
\* what a setup stage may store: a context that names its agent provider
StoredContexts ==
    {[MkContext("AG_IN", [EmptyDict EXCEPT !["eligible"] = Bool(TRUE)])
         EXCEPT !.agent_provider = "elevenlabs"]}

(* --------------------------- codec primitives ------------------------- *)
\* an audio payload as it arrives: None, a base64 text (the bytes it
\* encodes), or a non-empty text that is not base64
PayloadNone == [kind |-> "none", b64ok |-> FALSE, bytes |-> <<>>]
B64(bytes) == [kind |-> "text", b64ok |-> TRUE, bytes |-> bytes]
BadB64 == [kind |-> "text", b64ok |-> FALSE, bytes |-> <<>>]
\* Python truthiness of a payload: None and "" are false
Truthy(p) == p.kind = "text" /\ ~(p.b64ok /\ p.bytes = <<>>)
MediaPayloads == {PayloadNone, B64(<<255>>), B64(<<0, 128>>), BadB64}
\* PCM frames an agent's audio event may carry
AgentAudio == {<<1000, 2000>>, <<-3001>>}

Pow2(n) == IF n = 0 THEN 1 ELSE IF n = 1 THEN 2 ELSE IF n = 2 THEN 4
           ELSE IF n = 3 THEN 8 ELSE IF n = 4 THEN 16 ELSE IF n = 5 THEN 32
           ELSE IF n = 6 THEN 64 ELSE 128

\* audioop.ulaw2lin, one byte to one 16-bit sample (G.711)
ulaw2lin1(u) ==
    LET inv == 255 - u
        t == ((inv % 16) * 8 + 132) * Pow2((inv \div 16) % 8)
    IN IF inv >= 128 THEN 132 - t ELSE t - 132

ulaw2lin(bytes) == [i \in 1..Len(bytes) |-> ulaw2lin1(bytes[i])]

\* audioop.lin2ulaw, one 16-bit sample to one byte (G.711)
lin2ulaw1(sample) ==
    LET v14 == sample \div 4
        mag0 == IF v14 < 0 THEN -v14 ELSE v14
        mask == IF v14 < 0 THEN 127 ELSE 255
        mag == (IF mag0 > 8159 THEN 8159 ELSE mag0) + 33
        seg == IF mag <= 63 THEN 0 ELSE IF mag <= 127 THEN 1
               ELSE IF mag <= 255 THEN 2 ELSE IF mag <= 511 THEN 3
               ELSE IF mag <= 1023 THEN 4 ELSE IF mag <= 2047 THEN 5
               ELSE IF mag <= 4095 THEN 6 ELSE IF mag <= 8191 THEN 7 ELSE 8
        uval == seg * 16 + ((mag \div Pow2(seg + 1)) % 16)
    IN IF seg >= 8 THEN (IF mask = 255 THEN 128 ELSE 0)
       ELSE IF mask = 255 THEN 255 - uval ELSE 127 - uval

lin2ulaw(samples) == [i \in 1..Len(samples) |-> lin2ulaw1(samples[i])]

\* ratecv's state: (d, prev_i, cur_i); None is the fresh state
FreshState(outrate) == [d |-> -outrate, prev |-> 0, cur |-> 0]

\* audioop.ratecv on 16-bit mono samples, rates already reduced by their gcd
RECURSIVE ratecv_run(_, _, _, _, _)
ratecv_run(frag, inrate, outrate, st, out) ==
    IF st.d < 0
    THEN IF frag = <<>>
         THEN [out |-> out, state |-> st]
         ELSE ratecv_run(Tail(frag), inrate, outrate,
                         [d |-> st.d + outrate, prev |-> st.cur, cur |-> Head(frag)],
                         out)
    ELSE \* the C code interpolates on samples scaled by 2^16 and shifts the
         \* result back: for outrate <= 2^16 that is the floor of the quotient
         LET cur_o == (st.prev * st.d + st.cur * (outrate - st.d)) \div outrate
         IN ratecv_run(frag, inrate, outrate,
                       [st EXCEPT !.d = st.d - inrate], Append(out, cur_o))

ratecv(frag, inrate, outrate, state) == ratecv_run(frag, inrate, outrate, state, <<>>)

\* TwilioAudioConverter.dialer_to_pcm: base64 -> mu-law 8 kHz -> PCM 16 kHz;
\* every call passes state None to ratecv
dialer_to_pcm(audio_data) ==
    ratecv(ulaw2lin(audio_data.bytes), 1, 2, FreshState(2)).out

\* dialer_to_pcm raises (binascii.Error) on a text that is not base64
dialer_to_pcm_raises(audio_data) == ~audio_data.b64ok

\* TwilioAudioConverter.pcm_to_dialer: PCM 16 kHz -> mu-law 8 kHz -> base64
pcm_to_dialer(pcm_data) ==
    B64(lin2ulaw(ratecv(pcm_data, 2, 1, FreshState(1)).out))

\* TwilioMessageBuilder.build_audio_message
build_audio_message(stream_id, audio_payload) ==
    [event |-> "media", streamSid |-> stream_id, payload |-> audio_payload]

(* ------------------------------- state -------------------------------- *)
VARIABLES
    call_contexts,      \* context.py _call_contexts: call-id -> context or None
    incoming_response,  \* call-id -> what POST /{dialer}/incoming-call answered
    pc,                 \* media_stream's position, per dialer socket
    ws_state,           \* the dialer socket: "none", "open", "closed", "disconnected"
    call_id,            \* media_stream's local call_id
    stream_id,          \* media_stream's local stream_id
    agent_stream,       \* media_stream's local agent_stream: index in streams, 0 = None
    streams,            \* the agent streams connect() has returned to this bridge
    ninputs,            \* dialer messages and agent events received so far
    trace,              \* what the bridge received and the calls it made, in order
    agent,              \* an agent stream object with the calls made on its transport
    outbound,           \* the last outbound call: its request and its directive
    registries,         \* DialerRegistry._dialers and AgentRegistry._agents
    registry_call,      \* the last call made on a registry, with its result
    http,               \* the POST /{dialer}/outbound-call requests answered so far
    parsed              \* the messages the parsers were given, with their results

vars == <<call_contexts, incoming_response, pc, ws_state, call_id, stream_id,
          agent_stream, streams, ninputs, trace, agent, outbound,
          registries, registry_call, http, parsed>>

\* a trace entry: the operation, the agent stream it concerns (0: none), the
\* call-id or stream-id it carries, its outcome or kind, and its audio
\* (p: the custom parameters a start event's context was built from;
\* provider: the agent provider the start event's context names)
Ev(op, s, id, tag, x) ==
    [op |-> op, s |-> s, id |-> id, tag |-> tag, x |-> x, p |-> EmptyDict,
     provider |-> ""]

\* no agent stream object; no outbound call yet
NoAgent == [provider |-> "none", ws_open |-> FALSE, connected |-> FALSE,
            room |-> FALSE, room_connected |-> FALSE, audio_source |-> FALSE, audio_track |-> FALSE,
            receive_ended |-> FALSE, audio_queue |-> <<>>, log |-> <<>>]
NoOutbound == [some |-> FALSE, to_number |-> "", agent_id |-> "",
               dynamic_variables |-> EmptyDict, custom_params |-> EmptyDict]

\* main.py: DialerRegistry.register("twilio", TwilioDialerService)
dialers_registry == {"twilio"}
\* str.lower() on the names of this model
Lower(name) ==
    IF name \in {"Twilio", "TWILIO"} THEN "twilio"
    ELSE IF name = "ElevenLabs" THEN "elevenlabs" ELSE name
\* DialerRegistry.get raises ValueError for a name that is not registered
DialerRegistry_get_raises(name) == Lower(name) \notin dialers_registry

\* no call, no media stream
BridgeInit ==
    /\ call_contexts = [c \in CallIds |-> NoContext]
    /\ incoming_response = [c \in CallIds |-> "none"]
    /\ pc = [b \in Bridges |-> "idle"]
    /\ ws_state = [b \in Bridges |-> "none"]
    /\ call_id = [b \in Bridges |-> None]
    /\ stream_id = [b \in Bridges |-> None]
    /\ agent_stream = [b \in Bridges |-> 0]
    /\ streams = [b \in Bridges |-> <<>>]
    /\ ninputs = [b \in Bridges |-> 0]
    /\ trace = [b \in Bridges |-> <<>>]

(* --------------------------- plugin registries ------------------------- *)
\* the two registry classes; the plugin classes of each kind
Registries == {"DialerRegistry", "AgentRegistry"}
PluginClasses ==
    [DialerRegistry |-> {"TwilioDialerService", "OtherDialerService"},
     AgentRegistry |-> {"ElevenLabsAgentService", "PredixionAIAgentService"}]
AllPluginClasses == PluginClasses["DialerRegistry"] \cup PluginClasses["AgentRegistry"]
\* names a caller may pass to a registry: the keys a table may hold
RegistryNames == {"twilio", "Twilio", "TWILIO", "elevenlabs", "ElevenLabs"}

\* main.py 39-45: the registrations made at import (of the agent plugins,
\* the one whose name is in RegistryNames)
EmptyTable == [n \in RegistryNames |-> None]
StartupRegistries ==
    [DialerRegistry |-> [EmptyTable EXCEPT !["twilio"] = "TwilioDialerService"],
     AgentRegistry |-> [EmptyTable EXCEPT !["elevenlabs"] = "ElevenLabsAgentService"]]

\* the result of a registry call: its return value or the error it raised
\* (available: the names the error message lists), and the table before it
RegistryCall(op, r, name, raised, value, available, before) ==
    [op |-> op, registry |-> r, name |-> name, raised |-> raised,
     value |-> value, available |-> available, before |-> before]
NoRegistryCall == RegistryCall("none", "", "", FALSE, "", {}, EmptyTable)

\* a registration that keeps the name as it was given
register_key_verbatim(name) == name

\* registry.py 31: name_lower = name.lower()
register_key(name) == Lower(name)

\* list_dialers / list_agents: the keys of the table
list_dialers(table) == {n \in RegistryNames : table[n] # None}

\* is_registered: name.lower() in the table
is_registered(table, name) == Lower(name) \in list_dialers(table)

\* get: the class under name.lower(), or a ValueError listing the keys
get(table, name) ==
    IF table[Lower(name)] = None
    THEN [raised |-> TRUE, value |-> "", available |-> list_dialers(table)]
    ELSE [raised |-> FALSE, value |-> table[Lower(name)], available |-> {}]

\* register(name, cls): a class of the wrong kind is refused; a name
\* already registered is overwritten with a warning
Registry_register(r, name, cls) ==
    /\ IF cls \notin PluginClasses[r]
       THEN /\ registry_call' = RegistryCall("register", r, name, TRUE, cls, {},
                                            registries[r])
            /\ UNCHANGED registries
       ELSE /\ registries' = [registries EXCEPT ![r][register_key(name)] = cls]
            /\ registry_call' = RegistryCall("register", r, name, FALSE, cls, {},
                                            registries[r])
    /\ UNCHANGED <<agent, outbound, http, parsed, call_contexts, incoming_response, pc,
                   ws_state, call_id, stream_id, agent_stream, streams, ninputs,
                   trace>>

Registry_get(r, name) ==
    /\ LET result == get(registries[r], name)
       IN registry_call' = RegistryCall("get", r, name, result.raised,
                                        result.value, result.available,
                                        registries[r])
    /\ UNCHANGED <<registries, agent, outbound, http, parsed, call_contexts,
                   incoming_response, pc, ws_state, call_id, stream_id,
                   agent_stream, streams, ninputs, trace>>

Registry_is_registered(r, name) ==
    /\ registry_call' = RegistryCall("is_registered", r, name, FALSE,
           IF is_registered(registries[r], name) THEN "True" ELSE "False",
           {}, registries[r])
    /\ UNCHANGED <<registries, agent, outbound, http, parsed, call_contexts,
                   incoming_response, pc, ws_state, call_id, stream_id,
                   agent_stream, streams, ninputs, trace>>

\* unregister(name): a ValueError when the name is not registered
Registry_unregister(r, name) ==
    /\ IF registries[r][Lower(name)] = None
       THEN /\ registry_call' = RegistryCall("unregister", r, name, TRUE, "", {},
                                            registries[r])
            /\ UNCHANGED registries
       ELSE /\ registries' = [registries EXCEPT ![r][Lower(name)] = None]
            /\ registry_call' = RegistryCall("unregister", r, name, FALSE, "", {},
                                            registries[r])
    /\ UNCHANGED <<agent, outbound, http, parsed, call_contexts, incoming_response, pc,
                   ws_state, call_id, stream_id, agent_stream, streams, ninputs,
                   trace>>

Init ==
    /\ BridgeInit
    /\ agent = NoAgent
    /\ outbound = NoOutbound
    /\ registries = StartupRegistries
    /\ registry_call = NoRegistryCall
    /\ http = <<>>
    /\ parsed = <<>>

RegistryNext ==
    \/ \E r \in Registries, n \in RegistryNames, cls \in AllPluginClasses :
          Registry_register(r, n, cls)
    \/ \E r \in Registries, n \in RegistryNames : Registry_get(r, n)
    \/ \E r \in Registries, n \in RegistryNames : Registry_is_registered(r, n)
    \/ \E r \in Registries, n \in RegistryNames : Registry_unregister(r, n)

RegistrySpec == Init /\ [][RegistryNext]_vars

(* ------------------------- call-context store ------------------------- *)
get_call_context(c) == IF c \in CallIds THEN call_contexts[c] ELSE NoContext

\* a cleanup that empties the store
cleanup_call_context_all(store, c) == [k \in CallIds |-> NoContext]

\* context.py 46-55: del _call_contexts[call_id] when the key is there
cleanup_call_context(store, c) ==
    IF c \in CallIds /\ store[c].some THEN [store EXCEPT ![c] = NoContext] ELSE store

\* the call-ids some bridge has seen in a start event
SeenInStart(c) ==
    \E b \in DOMAIN trace : \E i \in 1..Len(trace[b]) :
        trace[b][i].op = "recv_start" /\ trace[b][i].id = c

\* store_call_context(call_id, context), called by a setup stage for a call
\* that has no media stream yet
store_call_context(c, ctx) ==
    /\ ~call_contexts[c].some
    /\ ~SeenInStart(c)
    /\ call_contexts' = [call_contexts EXCEPT ![c] = ctx]
    /\ UNCHANGED <<agent, outbound, registries, registry_call, http, parsed, incoming_response, pc, ws_state, call_id, stream_id,
                   agent_stream, streams, ninputs, trace>>

(* ------------------------- incoming-call handler ----------------------- *)
\* POST /{dialer}/incoming-call for the call the dialer identifies as c: the
\* handler builds a context and a connection directive; it never calls
\* store_call_context
handle_incoming_call(d, c) ==
    /\ incoming_response[c] = "none"
    /\ ~SeenInStart(c)
    /\ incoming_response' = [incoming_response EXCEPT ![c] =
           IF DialerRegistry_get_raises(d) THEN "404" ELSE "200"]
    /\ UNCHANGED <<agent, outbound, registries, registry_call, http, parsed, call_contexts, pc, ws_state, call_id, stream_id,
                   agent_stream, streams, ninputs, trace>>

(* ------------------------------ the bridge ----------------------------- *)
\* a conversion that passes every value through unchanged
coerce_nothing(v) == v

\* dialer.py 250-256: string booleans back to booleans
coerce(v) ==
    IF v = Str("true") THEN Bool(TRUE)
    ELSE IF v = Str("false") THEN Bool(FALSE) ELSE v

\* dialer.py 239-261: the context built from the start event's custom
\* parameters; None when there are none
context_from_params(custom_params) ==
    IF DictIsEmpty(custom_params) THEN NoContext
    ELSE MkContext(
            IF custom_params["agent_id"] = Absent THEN DEFAULT_AGENT_ID
            ELSE custom_params["agent_id"].s,
            [k \in Keys |-> IF k = "agent_id" THEN Absent
                            ELSE coerce(custom_params[k])])

\* a resolution that looks at the custom parameters first
resolve_context_params_first(c, custom_params) ==
    IF ~DictIsEmpty(custom_params) THEN context_from_params(custom_params)
    ELSE get_call_context(c)

\* dialer.py 234-261: the stored context first, the custom parameters second
resolve_context(c, custom_params) ==
    IF get_call_context(c).some THEN get_call_context(c)
    ELSE context_from_params(custom_params)

\* TwilioConnectionHandler.handle_incoming_message: the canonical tag of a
\* wire event
handle_incoming_message(event) ==
    IF event \in {"start", "media", "stop", "mark"} THEN event ELSE "unknown"

\* where a start event's context comes from: the store, the custom
\* parameters (with or without an agent_id), or nowhere
StartSource(c, custom_params) ==
    IF get_call_context(c).some THEN "store"
    ELSE IF DictIsEmpty(custom_params) THEN "none"
    ELSE IF custom_params["agent_id"] = Absent THEN "params_no_agent_id"
    ELSE "params"

\* a start handler that creates the pump as soon as connect() has returned,
\* whether or not initialize() succeeds
NewStream_pump_at_connect(context, sid, initialized) ==
    [agent_id |-> context.agent_id,
     dynamic_variables |-> context.dynamic_variables,
     initialized |-> initialized,
     closed |-> FALSE,
     pump |-> "running",
     pump_stream_id |-> sid]

\* the agent stream connect() returned, and the pump create_task started
NewStream(context, sid, initialized) ==
    [agent_id |-> context.agent_id,
     dynamic_variables |-> context.dynamic_variables,
     initialized |-> initialized,
     closed |-> FALSE,
     pump |-> IF initialized THEN "running" ELSE "none",
     pump_stream_id |-> sid]

\* websocket.accept(), then the dialer lookup
media_stream_accept(b, d) ==
    /\ pc[b] = "idle"
    /\ ws_state' = [ws_state EXCEPT ![b] = "open"]
    /\ pc' = [pc EXCEPT ![b] =
           IF DialerRegistry_get_raises(d) THEN "finally" ELSE "loop"]
    /\ UNCHANGED <<agent, outbound, registries, registry_call, http, parsed, call_contexts, incoming_response, call_id, stream_id,
                   agent_stream, streams, ninputs, trace>>

\* config.py 13: default_agent
default_agent == "predixionai"

\* dialer.py 274: agent_provider = settings.default_agent, whatever the
\* context holds
select_agent_provider(context) == default_agent

\* the pump is created after connect() and initialize() have returned; a
\* connect entry carries the provider whose service was asked to connect
StartTrace(b, agent_provider, outcome) ==
    IF outcome = "connect_raises"
    THEN <<Ev("connect", 0, agent_provider, "raises", <<>>),
           Ev("ws_close", 0, "", "ok", <<>>)>>
    ELSE IF outcome = "initialize_raises"
    THEN <<Ev("connect", Len(streams[b]) + 1, agent_provider, "ok", <<>>),
           Ev("initialize", Len(streams[b]) + 1, "", "raises", <<>>),
           Ev("ws_close", 0, "", "ok", <<>>)>>
    ELSE <<Ev("connect", Len(streams[b]) + 1, agent_provider, "ok", <<>>),
           Ev("initialize", Len(streams[b]) + 1, "", "ok", <<>>),
           Ev("create_task", Len(streams[b]) + 1, "", "ok", <<>>)>>

\* event_type == "start" (dialer.py 226-300)
media_stream_start(b, c, sid, custom_params, outcome) ==
    /\ pc[b] = "loop"
    /\ ninputs[b] < MaxInputs
    /\ ninputs' = [ninputs EXCEPT ![b] = @ + 1]
    /\ call_id' = [call_id EXCEPT ![b] = c]
    /\ stream_id' = [stream_id EXCEPT ![b] = sid]
    /\ LET context == resolve_context(c, custom_params)
           recv == [Ev("recv_start", 0, c, StartSource(c, custom_params), <<>>)
                        EXCEPT !.p = IF get_call_context(c).some THEN EmptyDict
                                     ELSE custom_params,
                               !.provider = context.agent_provider]
       IN IF ~context.some
          THEN /\ outcome = "ok"
               /\ ws_state' = [ws_state EXCEPT ![b] = "closed"]
               /\ pc' = [pc EXCEPT ![b] = "finally"]
               /\ trace' = [trace EXCEPT ![b] =
                      @ \o <<recv, Ev("ws_close", 0, "", "ok", <<>>)>>]
               /\ UNCHANGED <<agent_stream, streams>>
          ELSE /\ trace' = [trace EXCEPT ![b] =
                      @ \o <<recv>> \o
                      StartTrace(b, select_agent_provider(context), outcome)]
               /\ IF outcome = "connect_raises"
                  THEN UNCHANGED <<agent_stream, streams>>
                  ELSE /\ streams' = [streams EXCEPT ![b] =
                              Append(@, NewStream(context, sid, outcome = "ok"))]
                       /\ agent_stream' = [agent_stream EXCEPT ![b] =
                              Len(streams[b]) + 1]
               /\ IF outcome = "ok"
                  THEN UNCHANGED <<ws_state, pc>>
                  ELSE /\ ws_state' = [ws_state EXCEPT ![b] = "closed"]
                       /\ pc' = [pc EXCEPT ![b] = "finally"]
    /\ UNCHANGED <<agent, outbound, registries, registry_call, http, parsed, call_contexts, incoming_response>>

PayloadTag(p) ==
    IF p.kind = "none" THEN "none" ELSE IF p.b64ok THEN "b64" ELSE "bad"

\* an upstream step that hands the transcoded frame to the agent twice
upstream_pump_duplicating(b, p, outcome) ==
    <<Ev("send_audio", agent_stream[b], "", outcome, dialer_to_pcm(p)),
      Ev("send_audio", agent_stream[b], "", outcome, dialer_to_pcm(p))>>

\* dialer.py 308-311: transcode the payload and hand it to the agent stream,
\* one send_audio call per media event
upstream_pump(b, p, outcome) ==
    <<Ev("send_audio", agent_stream[b], "", outcome, dialer_to_pcm(p))>>

\* event_type == "media" (dialer.py 302-311)
media_stream_media(b, p, outcome) ==
    /\ pc[b] = "loop"
    /\ ninputs[b] < MaxInputs
    /\ ninputs' = [ninputs EXCEPT ![b] = @ + 1]
    /\ LET recv == Ev("recv_media", agent_stream[b], "", PayloadTag(p), p.bytes)
       IN IF Truthy(p) /\ agent_stream[b] # 0
          THEN IF dialer_to_pcm_raises(p)
               THEN /\ outcome = "ok"
                    /\ trace' = [trace EXCEPT ![b] = Append(@, recv)]
                    /\ pc' = [pc EXCEPT ![b] = "finally"]
               ELSE /\ trace' = [trace EXCEPT ![b] = @ \o
                           <<recv>> \o upstream_pump(b, p, outcome)]
                    /\ pc' = [pc EXCEPT ![b] =
                           IF outcome = "ok" THEN "loop" ELSE "finally"]
          ELSE /\ outcome = "ok"
               /\ trace' = [trace EXCEPT ![b] = Append(@, recv)]
               /\ UNCHANGED pc
    /\ UNCHANGED <<agent, outbound, registries, registry_call, http, parsed, call_contexts, incoming_response, ws_state, call_id,
                   stream_id, agent_stream, streams>>

\* event_type == "stop" (dialer.py 313-316)
media_stream_stop(b) ==
    /\ pc[b] = "loop"
    /\ ninputs[b] < MaxInputs
    /\ ninputs' = [ninputs EXCEPT ![b] = @ + 1]
    /\ pc' = [pc EXCEPT ![b] = "finally"]
    /\ trace' = [trace EXCEPT ![b] = Append(@, Ev("recv_stop", 0, "", "", <<>>))]
    /\ UNCHANGED <<agent, outbound, registries, registry_call, http, parsed, call_contexts, incoming_response, ws_state, call_id,
                   stream_id, agent_stream, streams>>

\* mark, dtmf and unknown events are logged (dialer.py 318-333)
media_stream_other(b, event) ==
    /\ pc[b] = "loop"
    /\ ninputs[b] < MaxInputs
    /\ handle_incoming_message(event) \in {"mark", "unknown"}
    /\ ninputs' = [ninputs EXCEPT ![b] = @ + 1]
    /\ UNCHANGED <<agent, outbound, registries, registry_call, http, parsed, call_contexts, incoming_response, pc, ws_state, call_id,
                   stream_id, agent_stream, streams, trace>>

\* receive_text() raises WebSocketDisconnect (dialer.py 335-336)
media_stream_disconnect(b) ==
    /\ pc[b] = "loop"
    /\ ws_state' = [ws_state EXCEPT ![b] = "disconnected"]
    /\ pc' = [pc EXCEPT ![b] = "finally"]
    /\ trace' = [trace EXCEPT ![b] =
           Append(@, Ev("recv_disconnect", 0, "", "", <<>>))]
    /\ UNCHANGED <<agent, outbound, registries, registry_call, http, parsed, call_contexts, incoming_response, call_id, stream_id,
                   agent_stream, streams, ninputs>>

\* json.loads raises a ValueError (dialer.py 220, 337-338)
media_stream_bad_json(b) ==
    /\ pc[b] = "loop"
    /\ ninputs[b] < MaxInputs
    /\ ninputs' = [ninputs EXCEPT ![b] = @ + 1]
    /\ pc' = [pc EXCEPT ![b] = "finally"]
    /\ trace' = [trace EXCEPT ![b] =
           Append(@, Ev("recv_bad_json", 0, "", "", <<>>))]
    /\ UNCHANGED <<agent, outbound, registries, registry_call, http, parsed, call_contexts, incoming_response, ws_state, call_id,
                   stream_id, agent_stream, streams>>

\* a cleanup whose first step is not wrapped: when agent_stream.close() raises
\* the rest of the finally block is skipped
media_stream_close_agent_unwrapped(b, outcome) ==
    /\ pc[b] = "finally"
    /\ pc' = [pc EXCEPT ![b] =
           IF agent_stream[b] # 0 /\ outcome = "raises" THEN "done"
           ELSE "finally_context"]
    /\ IF agent_stream[b] # 0
       THEN /\ streams' = [streams EXCEPT ![b][agent_stream[b]].closed =
                   @ \/ outcome = "ok"]
            /\ trace' = [trace EXCEPT ![b] =
                   Append(@, Ev("agent_close", agent_stream[b], "", outcome, <<>>))]
       ELSE /\ outcome = "ok"
            /\ UNCHANGED <<streams, trace>>
    /\ UNCHANGED <<agent, outbound, registries, registry_call, http, parsed, call_contexts, incoming_response, ws_state, call_id,
                   stream_id, agent_stream, ninputs>>

\* finally, first step: await agent_stream.close() (dialer.py 343-347)
media_stream_close_agent(b, outcome) ==
    /\ pc[b] = "finally"
    /\ pc' = [pc EXCEPT ![b] = "finally_context"]
    /\ IF agent_stream[b] # 0
       THEN /\ streams' = [streams EXCEPT ![b][agent_stream[b]].closed =
                   @ \/ outcome = "ok"]
            /\ trace' = [trace EXCEPT ![b] =
                   Append(@, Ev("agent_close", agent_stream[b], "", outcome, <<>>))]
       ELSE /\ outcome = "ok"
            /\ UNCHANGED <<streams, trace>>
    /\ UNCHANGED <<agent, outbound, registries, registry_call, http, parsed, call_contexts, incoming_response, ws_state, call_id,
                   stream_id, agent_stream, ninputs>>

\* finally, first step, when agent_stream.close() does not return: the
\* await has no timeout, so media_stream stays there
media_stream_close_agent_blocks(b) ==
    /\ pc[b] = "finally"
    /\ agent_stream[b] # 0
    /\ pc' = [pc EXCEPT ![b] = "awaiting_close"]
    /\ trace' = [trace EXCEPT ![b] =
           Append(@, Ev("agent_close", agent_stream[b], "", "blocks", <<>>))]
    /\ UNCHANGED <<agent, outbound, registries, registry_call, http, parsed, call_contexts,
                   incoming_response, ws_state, call_id, stream_id, agent_stream,
                   streams, ninputs>>

\* finally, the rest: cleanup_call_context(call_id), then websocket.close()
\* (dialer.py 349-357)
media_stream_cleanup(b) ==
    /\ pc[b] = "finally_context"
    /\ pc' = [pc EXCEPT ![b] = "done"]
    /\ call_contexts' =
           IF call_id[b] # None THEN cleanup_call_context(call_contexts, call_id[b])
           ELSE call_contexts
    /\ trace' = [trace EXCEPT ![b] = @ \o
           (IF call_contexts' # call_contexts
            THEN <<Ev("ctx_delete", 0, call_id[b], "ok", <<>>)>> ELSE <<>>)
           \o <<Ev("ws_close", 0, "",
                   IF ws_state[b] = "open" THEN "ok" ELSE "raises", <<>>)>>]
    /\ ws_state' = [ws_state EXCEPT ![b] = IF @ = "open" THEN "closed" ELSE @]
    /\ UNCHANGED <<agent, outbound, registries, registry_call, http, parsed, incoming_response, call_id, stream_id, agent_stream,
                   streams, ninputs>>

(* ------------------------- the downstream pump ------------------------- *)
AgentEventTypes ==
    {"audio", "text", "transcription", "interruption", "error", "pong", "metadata"}

\* a pump that sends, from its second audio event on, the frame of the
\* event before
downstream_frame_lagging(b, s, data) ==
    LET earlier == SelectSeq(trace[b],
                       LAMBDA e : /\ e.op = "agent_event" /\ e.s = s
                                  /\ e.tag = "audio")
    IN IF earlier = <<>> THEN pcm_to_dialer(data)
       ELSE pcm_to_dialer(earlier[Len(earlier)].x)

\* dialer.py 372-374: the frame sent for an audio event is the transcoding
\* of that event's data
downstream_frame(b, s, data) == pcm_to_dialer(data)

\* a pump that forwards text events as well
sends_frame_for_text(type) == type \in {"audio", "text"}

\* dialer.py 374-386: only the AUDIO branch sends on the dialer socket; the
\* other branches log
sends_frame(type) == type = "audio"

\* one iteration of receive_from_agent's loop over agent_stream.receive()
receive_from_agent_event(b, s, type, data) ==
    /\ s \in 1..Len(streams[b])
    /\ streams[b][s].pump = "running"
    /\ ninputs[b] < MaxInputs
    /\ ninputs' = [ninputs EXCEPT ![b] = @ + 1]
    /\ IF sends_frame(type)
       THEN LET dialer_message ==
                    build_audio_message(streams[b][s].pump_stream_id,
                                        downstream_frame(b, s, data))
            IN IF ws_state[b] = "open"
               THEN /\ trace' = [trace EXCEPT ![b] = @ \o
                           <<Ev("agent_event", s, "", type, data),
                             Ev("ws_send", s, dialer_message.streamSid, "ok",
                                dialer_message.payload.bytes)>>]
                    /\ UNCHANGED streams
               ELSE \* send_text raises: the pump logs and ends
                    /\ trace' = [trace EXCEPT ![b] = @ \o
                           <<Ev("agent_event", s, "", type, data),
                             Ev("ws_send", s, dialer_message.streamSid, "raises",
                                dialer_message.payload.bytes)>>]
                    /\ streams' = [streams EXCEPT ![b][s].pump = "done"]
       ELSE /\ data = <<>>
            /\ trace' = [trace EXCEPT ![b] =
                   Append(@, Ev("agent_event", s, "", type, <<>>))]
            /\ UNCHANGED streams
    /\ UNCHANGED <<agent, outbound, registries, registry_call, http, parsed, call_contexts, incoming_response, pc, ws_state, call_id,
                   stream_id, agent_stream>>

\* agent_stream.receive() ends: the pump returns
receive_from_agent_end(b, s) ==
    /\ s \in 1..Len(streams[b])
    /\ streams[b][s].pump = "running"
    /\ ninputs[b] < MaxInputs
    /\ ninputs' = [ninputs EXCEPT ![b] = @ + 1]
    /\ streams' = [streams EXCEPT ![b][s].pump = "done"]
    /\ UNCHANGED <<agent, outbound, registries, registry_call, http, parsed, call_contexts, incoming_response, pc, ws_state, call_id,
                   stream_id, agent_stream, trace>>

(* --------------------------- specification ---------------------------- *)
StartOutcomes == {"ok", "connect_raises", "initialize_raises"}
CallOutcomes == {"ok", "raises"}

Next ==
    \/ \E c \in CallIds, ctx \in StoredContexts : store_call_context(c, ctx)
    \/ \E b \in Bridges, d \in DialerNames : media_stream_accept(b, d)
    \/ \E b \in Bridges, c \in CallIds, sid \in StreamIds,
          cp \in CustomParams, o \in StartOutcomes :
          media_stream_start(b, c, sid, cp, o)
    \/ \E b \in Bridges, p \in MediaPayloads, o \in CallOutcomes :
          media_stream_media(b, p, o)
    \/ \E b \in Bridges : media_stream_stop(b)
    \/ \E b \in Bridges, e \in {"mark", "dtmf", "connected"} :
          media_stream_other(b, e)
    \/ \E b \in Bridges : media_stream_disconnect(b)
    \/ \E b \in Bridges : media_stream_bad_json(b)
    \/ \E b \in Bridges, o \in CallOutcomes : media_stream_close_agent(b, o)
    \/ \E b \in Bridges : media_stream_close_agent_blocks(b)
    \/ \E b \in Bridges : media_stream_cleanup(b)
    \/ \E b \in Bridges, s \in 1..MaxInputs, t \in {"audio", "text", "pong"},
          data \in AgentAudio \cup {<<>>} :
          receive_from_agent_event(b, s, t, data)
    \/ \E b \in Bridges, s \in 1..MaxInputs : receive_from_agent_end(b, s)

Spec == Init /\ [][Next]_vars

\* one media stream and its pump, given every type of agent event
PumpNext ==
    \/ \E b \in Bridges : media_stream_accept(b, "twilio")
    \/ \E b \in Bridges, c \in CallIds, sid \in StreamIds, o \in StartOutcomes :
          media_stream_start(b, c, sid, ParamsWithAgent, o)
    \/ \E b \in Bridges : media_stream_stop(b)
    \/ \E b \in Bridges : media_stream_disconnect(b)
    \/ \E b \in Bridges, o \in CallOutcomes : media_stream_close_agent(b, o)
    \/ \E b \in Bridges : media_stream_cleanup(b)
    \/ \E b \in Bridges, s \in 1..MaxInputs, t \in AgentEventTypes,
          data \in AgentAudio \cup {<<>>} :
          receive_from_agent_event(b, s, t, data)
    \/ \E b \in Bridges, s \in 1..MaxInputs : receive_from_agent_end(b, s)

PumpSpec == Init /\ [][PumpNext]_vars

\* two media-stream connections served at the same time: each run of
\* media_stream has its own call_id, stream_id, agent_stream and websocket
\* (dialer.py 208-210); _call_contexts is the one module-level dictionary
Handlers == {"b1", "b2"}

IsolationInit ==
    /\ call_contexts = [c \in CallIds |-> NoContext]
    /\ incoming_response = [c \in CallIds |-> "none"]
    /\ pc = [b \in Handlers |-> "idle"]
    /\ ws_state = [b \in Handlers |-> "none"]
    /\ call_id = [b \in Handlers |-> None]
    /\ stream_id = [b \in Handlers |-> None]
    /\ agent_stream = [b \in Handlers |-> 0]
    /\ streams = [b \in Handlers |-> <<>>]
    /\ ninputs = [b \in Handlers |-> 0]
    /\ trace = [b \in Handlers |-> <<>>]
    /\ agent = NoAgent
    /\ outbound = NoOutbound
    /\ registries = StartupRegistries
    /\ registry_call = NoRegistryCall
    /\ http = <<>>
    /\ parsed = <<>>

\* a step of the media_stream run b, or of a pump it created
HandlerStep(b) ==
    \/ media_stream_accept(b, "twilio")
    \/ \E c \in CallIds, sid \in StreamIds :
          media_stream_start(b, c, sid, ParamsWithAgent, "ok")
    \/ media_stream_stop(b)
    \/ media_stream_close_agent(b, "ok")
    \/ media_stream_cleanup(b)
    \/ \E s \in 1..MaxInputs : receive_from_agent_event(b, s, "audio", <<1000, 2000>>)

IsolationNext ==
    \/ \E c \in CallIds, ctx \in StoredContexts : store_call_context(c, ctx)
    \/ \E b \in Handlers : HandlerStep(b)

IsolationSpec == IsolationInit /\ [][IsolationNext]_vars

\* the bridge together with the inbound-call webhook
NextInbound ==
    \/ Next
    \/ \E d \in DialerNames, c \in CallIds : handle_incoming_call(d, c)

InboundSpec == Init /\ [][NextInbound]_vars

\* asyncio runs a coroutine that can proceed: the bridge's cleanup steps are
\* taken once enabled; what the dialer and the agent send is up to them
Fairness ==
    \A b \in Bridges :
        /\ WF_vars(\E o \in CallOutcomes : media_stream_close_agent(b, o))
        /\ WF_vars(media_stream_cleanup(b))

FairSpec == Init /\ [][Next]_vars /\ Fairness

(* ------------------------- agent stream objects ------------------------ *)
\* an entry of the stream's log: a call on its transport (ws.send, ws.close,
\* capture_frame, unpublish_track, disconnect) with its outcome, a message
\* read from the transport (recv), an event given to the caller (yield), or
\* the end of one of its own methods (send_audio, close, initialize)
AEv(op, kind, tag, x) == [op |-> op, kind |-> kind, tag |-> tag, x |-> x]

\* ElevenLabsAgentStream.__init__: wraps the websocket connect() has opened
ElevenLabsAgentStream ==
    [NoAgent EXCEPT !.provider = "elevenlabs", !.ws_open = TRUE]
\* PredixionAIAgentStream.__init__: no room, no source, no track, not connected
PredixionAIAgentStream == [NoAgent EXCEPT !.provider = "predixionai"]

\* frames of the provider's protocol as the transport delivers them
Ping(e) == [type |-> "ping", event_id |-> e, audio |-> <<>>]
Audio(a) == [type |-> "audio", event_id |-> 0, audio |-> a]
Other(t) == [type |-> t, event_id |-> 0, audio |-> <<>>]
AgentMessages ==
    {Ping(7), Ping(8), Audio(<<1000, 2000>>), Audio(<<>>),
     Other("agent_response_event"), Other("error")}

\* ElevenLabsMessageHandler.parse_message
parse_message(message) ==
    IF message.type = "audio" /\ message.audio # <<>>
    THEN [type |-> "audio", data |-> message.audio]
    ELSE IF message.type = "agent_response_event"
    THEN [type |-> "text", data |-> <<>>]
    ELSE IF message.type = "user_transcription_event"
    THEN [type |-> "transcription", data |-> <<>>]
    ELSE IF message.type = "interruption_event"
    THEN [type |-> "interruption", data |-> <<>>]
    ELSE IF message.type = "ping"
    THEN [type |-> "pong", data |-> <<message.event_id>>]
    ELSE IF message.type = "error"
    THEN [type |-> "error", data |-> <<>>]
    ELSE [type |-> "metadata", data |-> <<>>]

\* a reply that does not carry the ping's event id
pong_response_without_id(event_id) == [type |-> "pong", event_id |-> 0]

\* stream.py 76-79: the reply to a ping
pong_response(event_id) == [type |-> "pong", event_id |-> event_id]

AgentLogFull == Len(agent.log) >= MaxAgentLog
Log(entries) == agent.log \o entries

bridge_vars == <<call_contexts, incoming_response, pc, ws_state, call_id,
                 stream_id, agent_stream, streams, ninputs, trace, outbound,
                 registries, registry_call, http, parsed>>

\* PredixionAIAgentStream.initialize
PredixionAI_initialize(outcome) ==
    /\ agent.provider = "predixionai" /\ ~agent.room /\ ~AgentLogFull
    /\ agent' = [agent EXCEPT
           !.room = TRUE,
           !.room_connected = (outcome # "connect_raises"),
           !.connected = (outcome = "ok"),
           !.audio_source = (outcome # "connect_raises"),
           !.audio_track = (outcome # "connect_raises"),
           !.log = Log(<<AEv("initialize", "", IF outcome = "ok" THEN "returned"
                                                ELSE "raised", <<>>)>>)]
    /\ UNCHANGED bridge_vars

\* ElevenLabsAgentStream.send_audio: a closed connection is logged, any other
\* failure is raised
ElevenLabs_send_audio(audio_data, outcome) ==
    /\ agent.provider = "elevenlabs" /\ ~AgentLogFull
    /\ ~agent.ws_open => outcome = "closed"
    /\ agent' = [agent EXCEPT
           !.ws_open = @ /\ outcome # "closed",
           !.log = Log(<<AEv("ws.send", "audio", outcome, audio_data),
                         AEv("send_audio", "audio",
                             IF outcome = "error" THEN "raised" ELSE "returned",
                             audio_data)>>)]
    /\ UNCHANGED bridge_vars

\* PredixionAIAgentStream.send_audio: returns at once when not connected or
\* without an audio source; the frame holds the same samples, scaled
PredixionAI_send_audio(audio_data, outcome) ==
    /\ agent.provider = "predixionai" /\ ~AgentLogFull
    /\ IF ~agent.connected \/ ~agent.audio_source
       THEN /\ outcome = "ok"
            /\ agent' = [agent EXCEPT !.log =
                   Log(<<AEv("send_audio", "audio", "returned", audio_data)>>)]
       ELSE /\ outcome \in {"ok", "error"}
            /\ agent' = [agent EXCEPT !.log =
                   Log(<<AEv("capture_frame", "audio", outcome, audio_data),
                         AEv("send_audio", "audio",
                             IF outcome = "error" THEN "raised" ELSE "returned",
                             audio_data)>>)]
    /\ UNCHANGED bridge_vars

\* one iteration of ElevenLabsAgentStream.receive: a ping is answered and
\* skipped, anything else is yielded
ElevenLabs_receive(message, outcome) ==
    /\ agent.provider = "elevenlabs" /\ ~AgentLogFull
    /\ agent.ws_open /\ ~agent.receive_ended
    /\ LET event == parse_message(message)
           recv == AEv("recv", message.type, "", event.data)
           pong == pong_response(event.data[1])
       IN IF event.type = "pong"
          THEN agent' = [agent EXCEPT
                   !.ws_open = outcome # "closed",
                   !.receive_ended = outcome # "ok",
                   !.log = Log(<<recv, AEv("ws.send", pong.type, outcome,
                                            <<pong.event_id>>)>>
                               \o IF outcome = "error"
                                  THEN <<AEv("yield", "error", "", <<>>)>>
                                  ELSE <<>>)]
          ELSE /\ outcome = "ok"
               /\ agent' = [agent EXCEPT !.log =
                      Log(<<recv, AEv("yield", event.type, "", event.data)>>)]
    /\ UNCHANGED bridge_vars

\* ElevenLabsAgentStream.close: self.ws is never cleared, so ws.close() is
\* called every time; on a closed websocket it does nothing
ElevenLabs_close(outcome) ==
    /\ agent.provider = "elevenlabs" /\ ~AgentLogFull
    /\ ~agent.ws_open => outcome = "ok"
    /\ agent' = [agent EXCEPT
           !.ws_open = FALSE,
           !.log = Log(<<AEv("ws.close", "",
                             IF agent.ws_open THEN outcome ELSE "noop", <<>>),
                         AEv("close", "",
                             IF outcome = "ok" THEN "returned" ELSE "raised",
                             <<>>)>>)]
    /\ UNCHANGED bridge_vars

\* PredixionAIAgentStream.close: the track and the room are never cleared;
\* every failure is logged and swallowed; a disconnect() that raises leaves
\* the room as it was
PredixionAI_close(unpublish, disconnect) ==
    /\ agent.provider = "predixionai" /\ ~AgentLogFull
    /\ ~(agent.audio_track /\ agent.room) => unpublish = "ok"
    /\ ~agent.room => disconnect = "ok"
    /\ agent' = [agent EXCEPT
           !.connected = FALSE,
           !.room_connected = @ /\ disconnect = "raises",
           !.log = Log(
               (IF agent.audio_track /\ agent.room
                THEN <<AEv("unpublish_track", "", unpublish, <<>>)>> ELSE <<>>)
               \o (IF agent.room
                   THEN <<AEv("disconnect", "", disconnect, <<>>)>> ELSE <<>>)
               \o <<AEv("close", "", "returned", <<>>)>>)]
    /\ UNCHANGED bridge_vars

\* one iteration of _consume_agent_audio's loop over the subscribed track:
\* audio_queue is asyncio.Queue(), which has no maximum size, so put()
\* returns at once; the loop runs as long as the room delivers frames and
\* does not look at _connected
PredixionAI_consume_agent_audio(frame) ==
    /\ agent.provider = "predixionai" /\ ~AgentLogFull
    /\ agent.room /\ agent.room_connected
    /\ agent' = [agent EXCEPT
           !.audio_queue = Append(@, frame),
           !.log = Log(<<AEv("put", "audio", "", frame)>>)]
    /\ UNCHANGED bridge_vars

\* dialer.py 287-296: receive() is iterated by the downstream pump, which is
\* created once initialize() has returned
receive_started(a) ==
    \E k \in 1..Len(a.log) : a.log[k] = AEv("initialize", "", "returned", <<>>)

\* a receive loop that ends as soon as the stream is not connected
receive_loop_ends_unconnected(a) == ~a.connected

\* stream.py 238, 256-259: the loop goes on while _connected or while the
\* queue holds an item; a get() on an empty queue gives up after a second
receive_loop_ends(a) == ~a.connected /\ a.audio_queue = <<>>

\* one iteration of PredixionAIAgentStream.receive with an item in the queue:
\* the oldest item is taken and yielded as an audio event (every item was
\* put, so the puts bound the iterations)
PredixionAI_receive ==
    /\ agent.provider = "predixionai"
    /\ receive_started(agent) /\ ~agent.receive_ended
    /\ agent.audio_queue # <<>>
    /\ agent' = [agent EXCEPT
           !.audio_queue = Tail(@),
           !.log = Log(<<AEv("recv", "audio", "", Head(agent.audio_queue)),
                         AEv("yield", "audio", "", Head(agent.audio_queue))>>)]
    /\ UNCHANGED bridge_vars

\* PredixionAIAgentStream.receive ends: not connected and nothing queued
PredixionAI_receive_end ==
    /\ agent.provider = "predixionai"
    /\ receive_started(agent) /\ ~agent.receive_ended
    /\ receive_loop_ends(agent)
    /\ agent' = [agent EXCEPT
           !.receive_ended = TRUE,
           !.log = Log(<<AEv("receive_end", "", "", <<>>)>>)]
    /\ UNCHANGED bridge_vars

\* the agent side goes away: the room's "disconnected" handler, or the
\* websocket closed by the peer
on_disconnected ==
    /\ agent.provider # "none"
    /\ agent.ws_open \/ agent.connected \/ agent.room_connected
    /\ agent' = [agent EXCEPT !.ws_open = FALSE, !.connected = FALSE,
                               !.room_connected = FALSE]
    /\ UNCHANGED bridge_vars

SendOutcomes == {"ok", "closed", "error"}

AgentInit ==
    /\ BridgeInit
    /\ outbound = NoOutbound
    /\ registries = StartupRegistries
    /\ registry_call = NoRegistryCall
    /\ http = <<>>
    /\ parsed = <<>>
    /\ agent \in {ElevenLabsAgentStream, PredixionAIAgentStream}

AgentNext ==
    \/ \E o \in {"ok", "connect_raises", "publish_raises"} :
          PredixionAI_initialize(o)
    \/ \E a \in AgentAudio, o \in SendOutcomes : ElevenLabs_send_audio(a, o)
    \/ \E a \in AgentAudio, o \in SendOutcomes : PredixionAI_send_audio(a, o)
    \/ \E m \in AgentMessages, o \in SendOutcomes : ElevenLabs_receive(m, o)
    \/ \E a \in AgentAudio : PredixionAI_consume_agent_audio(a)
    \/ PredixionAI_receive
    \/ PredixionAI_receive_end
    \/ \E o \in CallOutcomes : ElevenLabs_close(o)
    \/ \E u \in CallOutcomes, d \in CallOutcomes : PredixionAI_close(u, d)
    \/ on_disconnected

AgentSpec == AgentInit /\ [][AgentNext]_vars

\* the caller of receive() iterates it for as long as it can proceed: the
\* downstream pump is a task of its own on the event loop
AgentFairness ==
    /\ WF_vars(PredixionAI_receive)
    /\ WF_vars(PredixionAI_receive_end)

AgentFairSpec == AgentInit /\ [][AgentNext]_vars /\ AgentFairness

(* ---------------------------- outbound calls --------------------------- *)
\* what a caller may put in metadata.dynamic_variables
OutboundDynamicVariables ==
    {[EmptyDict EXCEPT !["eligible"] = Bool(TRUE)],
     [EmptyDict EXCEPT !["eligible"] = Bool(FALSE)],
     [EmptyDict EXCEPT !["eligible"] = Str("yes")],
     [EmptyDict EXCEPT !["agent_id"] = Bool(TRUE)],
     [EmptyDict EXCEPT !["to_number"] = Str("+15550399")]}

\* a directive that writes a boolean the way str() prints it
parameter_value_str(value) ==
    IF value.t = "bool" THEN Str(IF value.b THEN "True" ELSE "False") ELSE value

\* message_builder.py 56-59: the value attribute of a <Parameter>
parameter_value(value) ==
    IF value.t = "bool" THEN Str(IF value.b THEN "true" ELSE "false") ELSE value

\* TwilioMessageBuilder.build_connection_response: the <Parameter> elements
\* of the directive, one per custom parameter
build_connection_response(custom_params) ==
    [k \in Keys |-> parameter_value(custom_params[k])]

\* TwilioDialerService.initiate_outbound_call: agent_id and to_number, then
\* the dynamic variables on top of them
initiate_outbound_call(to_number, agent_id, dynamic_variables) ==
    /\ ~outbound.some
    /\ LET base == [EmptyDict EXCEPT !["agent_id"] = Str(agent_id),
                                     !["to_number"] = Str(to_number)]
           custom_params == [k \in Keys |->
               IF dynamic_variables[k] # Absent THEN dynamic_variables[k]
               ELSE base[k]]
       IN outbound' = [some |-> TRUE, to_number |-> to_number,
                       agent_id |-> agent_id,
                       dynamic_variables |-> dynamic_variables,
                       custom_params |-> build_connection_response(custom_params)]
    /\ UNCHANGED <<agent, registries, registry_call, http, parsed, call_contexts,
                   incoming_response, pc, ws_state, call_id, stream_id,
                   agent_stream, streams, ninputs, trace>>

\* the dialer opens the media stream of the outbound call: its start event
\* carries the directive's parameters
media_stream_start_echoed(b, c, sid, outcome) ==
    /\ outbound.some
    /\ media_stream_start(b, c, sid, outbound.custom_params, outcome)

\* an outbound call from the request to the end of its media stream
OutboundNext ==
    \/ \E dv \in OutboundDynamicVariables :
          initiate_outbound_call("+15550300", "AG1", dv)
    \/ \E b \in Bridges, d \in DialerNames : media_stream_accept(b, d)
    \/ \E b \in Bridges, c \in CallIds, sid \in StreamIds, o \in StartOutcomes :
          media_stream_start_echoed(b, c, sid, o)
    \/ \E b \in Bridges : media_stream_stop(b)
    \/ \E b \in Bridges, o \in CallOutcomes : media_stream_close_agent(b, o)
    \/ \E b \in Bridges : media_stream_cleanup(b)

OutboundSpec == Init /\ [][OutboundNext]_vars

(* ----------------------- POST /{dialer}/outbound-call ------------------ *)
\* config.py allowed_api_keys: the keys of the comma-separated API_KEYS
allowed_api_keys == {"key1"}
\* the X-API-Key header of a request: not sent, empty, or a key
HeaderMissing == "<no header>"
ApiKeyHeaders == {HeaderMissing, "", "key0", "key1"}

\* an answer: the status, the WWW-Authenticate header, the dialer names the
\* detail lists, whether DialerRegistry.get was called and whether the
\* dialer's initiate_outbound_call was
Response(status, www_authenticate, available, lookup, invoked) ==
    [status |-> status, www_authenticate |-> www_authenticate,
     available |-> available, lookup |-> lookup, invoked |-> invoked]

\* auth.py verify_api_key as the route's dependency: x_api_key is declared
\* Header(...), a required parameter, so a request without the header fails
\* FastAPI's validation (422) before the function runs
verify_api_key(x_api_key) ==
    IF x_api_key = HeaderMissing THEN Response(422, "", {}, FALSE, FALSE)
    ELSE IF x_api_key = "" \/ x_api_key \notin allowed_api_keys
    THEN Response(401, "ApiKey", {}, FALSE, FALSE)
    ELSE Response(200, "", {}, FALSE, FALSE)

\* a handler that looks at the metadata before the dialer's configuration
router_number_first(dialer_name, configured, to_number, outcome) ==
    IF DialerRegistry_get_raises(dialer_name)
    THEN Response(404, "", dialers_registry, TRUE, FALSE)
    ELSE IF ~to_number THEN Response(400, "", {}, TRUE, FALSE)
    ELSE IF ~configured THEN Response(500, "", {}, TRUE, FALSE)
    ELSE Response(IF outcome = "ok" THEN 200 ELSE 500, "", {}, TRUE, TRUE)

\* dialer.py 48-120, the route's body: configured is what the dialer's
\* validate_config() returns, to_number whether metadata has a to_number
router_initiate_outbound_call(dialer_name, configured, to_number, outcome) ==
    IF DialerRegistry_get_raises(dialer_name)
    THEN Response(404, "", dialers_registry, TRUE, FALSE)
    ELSE IF ~configured THEN Response(500, "", {}, TRUE, FALSE)
    ELSE IF ~to_number THEN Response(400, "", {}, TRUE, FALSE)
    ELSE Response(IF outcome = "ok" THEN 200 ELSE 500, "", {}, TRUE, TRUE)

\* one request, from the dependency to the answer
post_outbound_call(x_api_key, dialer_name, configured, to_number, outcome) ==
    /\ Len(http) < MaxRequests
    /\ LET auth == verify_api_key(x_api_key)
           response ==
               IF auth.status # 200 THEN auth
               ELSE router_initiate_outbound_call(dialer_name, configured,
                                                  to_number, outcome)
       IN /\ ~response.invoked => outcome = "ok"
          /\ http' = Append(http,
                 [x_api_key |-> x_api_key, dialer_name |-> dialer_name,
                  configured |-> configured, to_number |-> to_number,
                  response |-> response])
    /\ UNCHANGED <<agent, outbound, registries, registry_call, parsed, call_contexts,
                   incoming_response, pc, ws_state, call_id, stream_id,
                   agent_stream, streams, ninputs, trace>>

HttpNext ==
    \E k \in ApiKeyHeaders, d \in DialerNames, configured \in BOOLEAN,
       to_number \in BOOLEAN, o \in CallOutcomes :
        post_outbound_call(k, d, configured, to_number, o)

HttpSpec == Init /\ [][HttpNext]_vars

(* ------------------------------- parsers ------------------------------- *)
\* a wire frame after json.loads: a JSON object with or without an "event"
\* member, whose member named after the event (message["start"], ...) is an
\* object, absent or null; or a JSON value that is no object
NoEvent == "<no event>"
WireFrame(json, event, body) == [json |-> json, event |-> event, body |-> body]
WireFrames ==
    {WireFrame("object", e, body) :
        e \in {"start", "media", "stop", "mark", "dtmf", NoEvent},
        body \in {"object", "absent", "null"}}
    \cup {WireFrame("array", NoEvent, "absent")}

\* what a parser did with a message: raised, or returned an event
ParseResult(raised, type, data) == [raised |-> raised, type |-> type, data |-> data]

\* TwilioConnectionHandler.handle_incoming_message on a decoded frame:
\* message.get raises on a value that is no dict, and the handlers of the
\* four known events call .get on message.get(<event>, {}), which is None
\* when the member is null
handle_incoming_message_result(frame) ==
    IF frame.json # "object" THEN ParseResult(TRUE, "", <<>>)
    ELSE IF frame.event \in {"start", "media", "stop", "mark"} /\ frame.body = "null"
    THEN ParseResult(TRUE, "", <<>>)
    ELSE ParseResult(FALSE, handle_incoming_message(frame.event), <<>>)

\* what PredixionAIMessageHandler.parse_message may be given: an
\* rtc.AudioFrame, bytes, a dict, or a str holding JSON text
AgentInput(kind, type, audio) == [kind |-> kind, type |-> type, audio |-> audio]
PredixionAIInputs ==
    {AgentInput("AudioFrame", "", <<1000, 2000>>),
     AgentInput("bytes", "", <<-3001>>),
     AgentInput("dict", "error", <<>>),
     AgentInput("dict", "status", <<>>),
     AgentInput("str", "audio", <<1000, 2000>>),
     AgentInput("str", "audio", <<-3001>>)}

\* PredixionAIMessageHandler.parse_message: isinstance tests for AudioFrame,
\* bytes and dict; anything else is an ERROR event
PredixionAI_parse_message(message) ==
    IF message.kind \in {"AudioFrame", "bytes"}
    THEN ParseResult(FALSE, "audio", message.audio)
    ELSE IF message.kind = "dict"
    THEN ParseResult(FALSE, IF message.type = "error" THEN "error" ELSE "metadata",
                     <<>>)
    ELSE ParseResult(FALSE, "error", <<>>)

\* the dialer's parser applied to a frame
parse_wire_frame(frame) ==
    /\ Len(parsed) < MaxParsed
    /\ parsed' = Append(parsed,
           [parser |-> "TwilioConnectionHandler",
            frame |-> frame, message |-> AgentInput("", "", <<>>),
            result |-> handle_incoming_message_result(frame)])
    /\ UNCHANGED <<agent, outbound, registries, registry_call, http, call_contexts,
                   incoming_response, pc, ws_state, call_id, stream_id,
                   agent_stream, streams, ninputs, trace>>

\* the room-based agent's parser applied to a message
parse_agent_message(message) ==
    /\ Len(parsed) < MaxParsed
    /\ parsed' = Append(parsed,
           [parser |-> "PredixionAIMessageHandler",
            frame |-> WireFrame("", "", ""), message |-> message,
            result |-> PredixionAI_parse_message(message)])
    /\ UNCHANGED <<agent, outbound, registries, registry_call, http, call_contexts,
                   incoming_response, pc, ws_state, call_id, stream_id,
                   agent_stream, streams, ninputs, trace>>

ParseNext ==
    \/ \E frame \in WireFrames : parse_wire_frame(frame)
    \/ \E message \in PredixionAIInputs : parse_agent_message(message)

ParseSpec == Init /\ [][ParseNext]_vars

(* ------------------------------ properties ---------------------------- *)
\* the positions of a bridge's trace that hold an operation
At(b, op) == {i \in 1..Len(trace[b]) : trace[b][i].op = op}
\* the positions before i that hold an operation
Before(b, i, op) == {j \in At(b, op) : j < i}

\* C1: on every exit path, the agent stream and the dialer socket have both
\* been closed before the call-id's context is deleted from the store (a
\* socket the dialer has disconnected counts as closed)
C1_ClosedBeforeContextDeleted ==
    \A b \in Bridges : \A i \in At(b, "ctx_delete") :
        /\ Before(b, i, "ws_close") \cup Before(b, i, "recv_disconnect") # {}
        /\ agent_stream[b] # 0 =>
               \E j \in Before(b, i, "agent_close") :
                   trace[b][j].s = agent_stream[b]

\* C2: after a bridge has terminated, get_call_context(c) returns no context
\* for every call-id c one of its start events carried
C2_ContextAbsentAfterTermination ==
    \A b \in Bridges :
        pc[b] = "done" =>
            \A i \in At(b, "recv_start") : ~get_call_context(trace[b][i].id).some

\* the bridge is in its receive loop and its agent stream's pump has returned
\* (receive() ended, or the pump raised)
AgentSideEnded(b) ==
    /\ pc[b] = "loop"
    /\ agent_stream[b] # 0
    /\ streams[b][agent_stream[b]].pump = "done"

\* the bridge has closed the agent stream and the dialer socket and deleted
\* the context
Terminated(b) ==
    /\ pc[b] = "done"
    /\ ws_state[b] # "open"
    /\ call_id[b] # None => ~get_call_context(call_id[b]).some

\* C3: once the agent side has ended while the bridge is running, the bridge
\* eventually closes both endpoints and deletes the context, whatever the
\* dialer does
C3_AgentEndLeadsToClosing ==
    \A b \in Bridges : AgentSideEnded(b) ~> Terminated(b)

\* C4: initialize() is performed at most once per bridge, only after a start
\* event has been processed, and before the first send_audio call
C4_InitializeExactlyOnce ==
    \A b \in Bridges :
        /\ Cardinality(At(b, "initialize")) <= 1
        /\ \A i \in At(b, "initialize") : Before(b, i, "recv_start") # {}
        /\ \A k \in At(b, "send_audio") : Before(b, k, "initialize") # {}

\* C5: every send on the dialer socket, successful or not, is made for an
\* agent stream whose connect() and then initialize() have returned without
\* raising, after a start event was received
C5_NoFrameBeforeAgentReady ==
    \A b \in Bridges : \A i \in At(b, "ws_send") :
        \E r \in Before(b, i, "recv_start") :
        \E c \in Before(b, i, "connect") :
        \E n \in Before(b, i, "initialize") :
            /\ r < c /\ c < n
            /\ trace[b][c].s = trace[b][i].s /\ trace[b][c].tag = "ok"
            /\ trace[b][n].s = trace[b][i].s /\ trace[b][n].tag = "ok"

\* a frame has been delivered to the dialer
C5_FrameSent ==
    \E b \in Bridges : \E i \in At(b, "ws_send") :
        trace[b][i].tag = "ok" /\ trace[b][i].x # <<>>

\* the send_audio calls a bridge has made, in order
SendAudioCalls(b) == SelectSeq(trace[b], LAMBDA e : e.op = "send_audio")

\* the media events with a non-empty payload a bridge received while it held
\* an agent stream, in order
MediaReceived(b) ==
    SelectSeq(trace[b], LAMBDA e :
        /\ e.op = "recv_media" /\ e.s # 0
        /\ e.tag # "none" /\ ~(e.tag = "b64" /\ e.x = <<>>))

\* the k-th call carries the k-th event's frame to the k-th event's stream
OneToOne(calls, events) ==
    /\ Len(calls) = Len(events)
    /\ \A k \in 1..Len(calls) :
           /\ calls[k].s = events[k].s
           /\ calls[k].x = ratecv(ulaw2lin(events[k].x), 1, 2, FreshState(2)).out

C7_NoAgentIdClosesSocket ==
    \A b \in Bridges : \A i \in At(b, "recv_start") :
        trace[b][i].tag \in {"none", "params_no_agent_id"} =>
            /\ i < Len(trace[b]) /\ trace[b][i + 1].op = "ws_close"
            /\ pc[b] \notin {"idle", "loop"}

\* C8: when connect() or initialize() has raised, the dialer socket is
\* closed, no frame was ever sent to the dialer, no pump is started
\* afterwards, and once the bridge is done the call-id's context is absent
C8_HandshakeFailureSendsNothing ==
    \A b \in Bridges :
    \A i \in {j \in At(b, "connect") \cup At(b, "initialize") :
                  trace[b][j].tag = "raises"} :
        /\ ws_state[b] # "open"
        /\ \A k \in At(b, "ws_send") : trace[b][k].tag # "ok"
        /\ \A k \in At(b, "create_task") : k < i
        /\ pc[b] = "done" => ~get_call_context(call_id[b]).some

\* C9: after a start event for call-id c has been processed the stored
\* context for c is gone, and a second start event with the same call-id does
\* not open another agent connection
C9_StartConsumesContext ==
    \A b \in Bridges :
        /\ \A i \in At(b, "recv_start") : ~get_call_context(trace[b][i].id).some
        /\ \A i \in At(b, "recv_start") : \A j \in Before(b, i, "recv_start") :
               trace[b][j].id = trace[b][i].id =>
                   i < Len(trace[b]) /\ trace[b][i + 1].op # "connect"

\* C10: after the incoming-call webhook has succeeded for call c, the store
\* holds a context under c until a bridge consumes or deletes it
C10_IncomingCallStoresContext ==
    \A c \in CallIds :
        incoming_response[c] = "200" /\ ~SeenInStart(c) =>
            get_call_context(c).some

\* C11: a start event with empty custom parameters for a call the
\* incoming-call handler has answered finds a context: the bridge calls
\* connect() (then initialize()) instead of closing the socket
C11_InboundStartFindsContext ==
    \A b \in Bridges : \A i \in At(b, "recv_start") :
        incoming_response[trace[b][i].id] = "200" =>
            /\ trace[b][i].tag # "none"
            /\ i < Len(trace[b]) /\ trace[b][i + 1].op = "connect"
            /\ trace[b][i + 1].tag = "ok" =>
                   i + 1 < Len(trace[b]) /\ trace[b][i + 2].op = "initialize"

\* C12: cleanup stops the downstream pump, then closes the agent stream, then
\* closes the dialer socket, then deletes the context
C12_ClosingOrder ==
    \A b \in Bridges :
        /\ \A i \in At(b, "agent_close") :
               streams[b][trace[b][i].s].pump # "running"
        /\ \A i \in At(b, "ctx_delete") :
               /\ \A j \in At(b, "agent_close") : j < i
               /\ \E j \in Before(b, i, "ws_close") :
                      \A k \in At(b, "agent_close") : k < j

\* C13: a failure of one cleanup step does not prevent the others: once the
\* finally block has run, whether or not agent_stream.close() or
\* websocket.close() raised, the context is deleted and the socket is not open
C13_CleanupStepsIndependent ==
    \A b \in Bridges :
        pc[b] = "done" =>
            /\ call_id[b] # None => ~get_call_context(call_id[b]).some
            /\ ws_state[b] # "open"
            /\ \A i \in At(b, "agent_close") :
                   \E j \in At(b, "ws_close") : i < j

\* agent_stream.close() raised and the bridge still deleted a stored context
\* and closed the open dialer socket
C13_CloseRaisedAndCleanedUp ==
    \E b \in Bridges :
        /\ pc[b] = "done"
        /\ \E i \in At(b, "agent_close") : trace[b][i].tag = "raises"
        /\ At(b, "ctx_delete") # {}
        /\ \E j \in At(b, "ws_close") :
               /\ trace[b][j].tag = "ok"
               /\ \E i \in Before(b, j, "ctx_delete") :
                      Before(b, i, "agent_close") # {}

\* the positions of the agent stream's log that hold an operation
LogAt(op) == {i \in 1..Len(agent.log) : agent.log[i].op = op}

\* C14: once close() has returned, calling it again performs no further
\* action on the transport: no close of an open transport, no unpublish, no
\* disconnect
C14_SecondCloseDoesNothing ==
    \A i \in LogAt("close") :
    \A j \in LogAt("ws.close") \cup LogAt("unpublish_track") \cup LogAt("disconnect") :
        i < j => agent.log[j].tag = "noop"

C18_SendAudioNeverDrops ==
    \A i \in LogAt("send_audio") :
        agent.log[i].tag = "returned" =>
            /\ i > 1
            /\ agent.log[i - 1].op \in {"ws.send", "capture_frame"}
            /\ agent.log[i - 1].tag = "ok"
            /\ agent.log[i - 1].x = agent.log[i].x

\* the last thing a bridge received or did
Last(b) == trace[b][Len(trace[b])]

\* C16: a dialer frame that fails JSON parsing, or whose payload fails
\* base64 decoding, is dropped and the bridge keeps running
C16_DecodeFailureDropsFrameOnly ==
    \A b \in Bridges :
        (/\ trace[b] # <<>>
         /\ \/ Last(b).op = "recv_bad_json"
            \/ Last(b).op = "recv_media" /\ Last(b).tag = "bad") =>
            pc[b] = "loop"

\* C17: a send_audio call that raises is logged and the bridge keeps running
C17_SendFailureKeepsRunning ==
    \A b \in Bridges :
        (/\ trace[b] # <<>>
         /\ Last(b).op = "send_audio" /\ Last(b).tag = "raises") =>
            pc[b] = "loop"

\* C19: a context built from the start event's custom parameters has
\* agent_id as its agent identifier, and every other key as a dynamic
\* variable: TRUE for "true", FALSE for "false", the same string otherwise
C19_ContextFromCustomParameters ==
    \A b \in Bridges : \A i \in At(b, "recv_start") :
        (/\ trace[b][i].tag \in {"params", "params_no_agent_id"}
         /\ trace[b][i + 1].op = "connect" /\ trace[b][i + 1].tag = "ok") =>
            LET custom_params == trace[b][i].p
                stream == streams[b][trace[b][i + 1].s]
            IN /\ custom_params["agent_id"] # Absent =>
                      stream.agent_id = custom_params["agent_id"].s
               /\ stream.dynamic_variables["agent_id"] = Absent
               /\ \A k \in Keys \ {"agent_id"} :
                      stream.dynamic_variables[k] =
                          IF custom_params[k] = Str("true") THEN Bool(TRUE)
                          ELSE IF custom_params[k] = Str("false") THEN Bool(FALSE)
                          ELSE custom_params[k]

\* agent streams have been opened with a "true", a "false" and a plain string
\* parameter turned into dynamic variables
C19_BooleansAndStringsConverted ==
    \E b \in Bridges : \E s \in 1..Len(streams[b]) : \E t \in 1..Len(streams[b]) :
        /\ streams[b][s].agent_id = "AG1"
        /\ streams[b][s].dynamic_variables["eligible"] = Bool(TRUE)
        /\ streams[b][t].dynamic_variables["eligible"] = Bool(FALSE)
        /\ streams[b][t].dynamic_variables["to_number"] = Str("+15550300")

\* the agent streams opened for start events that echoed the outbound
\* directive's parameters
EchoedStreams(b) ==
    {trace[b][i + 1].s : i \in {j \in At(b, "recv_start") :
        /\ outbound.some /\ trace[b][j].p = outbound.custom_params
        /\ trace[b][j + 1].op = "connect" /\ trace[b][j + 1].tag = "ok"}}

\* the boolean under key k of the outbound request is "true" or "false" in
\* the directive and the same boolean in the stream's dynamic variables
RoundTrip(b, s, k) ==
    outbound.dynamic_variables[k].t = "bool" =>
        /\ outbound.custom_params[k] =
               Str(IF outbound.dynamic_variables[k].b THEN "true" ELSE "false")
        /\ streams[b][s].dynamic_variables[k] = outbound.dynamic_variables[k]

\* C20 as stated: every boolean dynamic variable of an outbound request comes
\* back as the same boolean under the same key
C20_BooleansRoundTrip ==
    \A b \in Bridges : \A s \in EchoedStreams(b) : \A k \in Keys :
        RoundTrip(b, s, k)

\* C20: every boolean dynamic variable of an outbound request whose key is
\* not agent_id is written as "true" or "false" and comes back as the same
\* boolean under the same key
C20_BooleansRoundTripExceptAgentId ==
    \A b \in Bridges : \A s \in EchoedStreams(b) : \A k \in Keys \ {"agent_id"} :
        RoundTrip(b, s, k)

\* a FALSE dynamic variable has made the round trip
C20_FalseCameBack ==
    \E b \in Bridges : \E s \in EchoedStreams(b) :
        /\ outbound.dynamic_variables["eligible"] = Bool(FALSE)
        /\ outbound.custom_params["eligible"] = Str("false")
        /\ streams[b][s].dynamic_variables["eligible"] = Bool(FALSE)

\* the names that differ only in letter case
CaseClasses ==
    {{"twilio", "Twilio", "TWILIO"}, {"elevenlabs", "ElevenLabs"}, {"plivo"}}
SameIgnoringCase(n, m) == \E names \in CaseClasses : n \in names /\ m \in names

UpstreamIn(b, s) ==
    SelectSeq(trace[b], LAMBDA e : /\ e.op = "recv_media" /\ e.s = s
                                   /\ e.tag = "b64" /\ e.x # <<>>)
UpstreamOut(b, s) ==
    SelectSeq(trace[b], LAMBDA e : e.op = "send_audio" /\ e.s = s)
DownstreamIn(b, s) ==
    SelectSeq(trace[b], LAMBDA e : /\ e.op = "agent_event" /\ e.s = s
                                   /\ e.tag = "audio")
DownstreamOut(b, s) ==
    SelectSeq(trace[b], LAMBDA e : e.op = "ws_send" /\ e.s = s)

\* the resampler state a direction holds before its n-th frame when each
\* conversion is given the state the previous one returned
RECURSIVE CarriedState(_, _, _, _)
CarriedState(frames, inrate, outrate, n) ==
    IF n = 1 THEN FreshState(outrate)
    ELSE ratecv(frames[n - 1], inrate, outrate,
                CarriedState(frames, inrate, outrate, n - 1)).state

\* C22: in each direction, the n-th frame of a stream is converted with the
\* resampler state the conversion of the (n-1)-th frame returned, the first
\* frame with a fresh state
C22_ResamplerStateCarried ==
    \A b \in Bridges : \A s \in 1..Len(streams[b]) :
        LET up == [n \in 1..Len(UpstreamIn(b, s)) |->
                      ulaw2lin(UpstreamIn(b, s)[n].x)]
            down == [n \in 1..Len(DownstreamIn(b, s)) |-> DownstreamIn(b, s)[n].x]
        IN /\ \A n \in 1..Len(UpstreamOut(b, s)) :
                  UpstreamOut(b, s)[n].x =
                      ratecv(up[n], 1, 2, CarriedState(up, 1, 2, n)).out
           /\ \A n \in 1..Len(DownstreamOut(b, s)) :
                  DownstreamOut(b, s)[n].x =
                      lin2ulaw(ratecv(down[n], 2, 1,
                                      CarriedState(down, 2, 1, n)).out)

\* C23: the queue between the track consumer and receive() has a capacity
\* that stops the producer: it never holds as many items as the producer
\* can be given to put
C23_AudioQueueBounded ==
    Len(agent.audio_queue) <= MaxAgentLog - 2

\* C24: with a valid key, an unregistered dialer name is answered 404 with
\* the registered names; otherwise a dialer whose validate_config() is false
\* 500; otherwise metadata without to_number 400; and in none of these
\* cases is the dialer's initiate_outbound_call invoked
C24_OutboundCallErrorOrder ==
    \A i \in 1..Len(http) :
        LET request == http[i]
            registered ==
                \E n \in dialers_registry : SameIgnoringCase(n, request.dialer_name)
        IN request.x_api_key \in allowed_api_keys =>
               /\ ~registered =>
                      /\ request.response.status = 404
                      /\ request.response.available = dialers_registry
                      /\ ~request.response.invoked
               /\ (registered /\ ~request.configured) =>
                      /\ request.response.status = 500
                      /\ ~request.response.invoked
               /\ (registered /\ request.configured /\ ~request.to_number) =>
                      /\ request.response.status = 400
                      /\ ~request.response.invoked

\* a misconfigured dialer asked to call without a number has answered 500,
\* and an unregistered, misconfigured one 404
C24_FirstApplicableDecided ==
    \E i \in 1..Len(http) : \E j \in 1..Len(http) :
        /\ http[i].x_api_key = "key1" /\ http[j].x_api_key = "key1"
        /\ http[i].dialer_name = "Twilio"
        /\ ~http[i].configured /\ ~http[i].to_number
        /\ http[i].response.status = 500
        /\ http[j].dialer_name = "plivo" /\ ~http[j].configured
        /\ http[j].response.status = 404

\* C25: a request without an X-API-Key header, or with a key that is not
\* permitted, is answered 401 with WWW-Authenticate: ApiKey, and neither a
\* dialer lookup nor an outbound call is made for it
C25_BadKeyRejected ==
    \A i \in 1..Len(http) :
        http[i].x_api_key \notin allowed_api_keys =>
            /\ http[i].response.status = 401
            /\ http[i].response.www_authenticate = "ApiKey"
            /\ ~http[i].response.lookup
            /\ ~http[i].response.invoked

\* C26: the bridge connects through the provider the start event's context
\* names, and through the default provider when the context names none
C26_ProviderFromContext ==
    \A b \in Bridges : \A i \in At(b, "connect") :
        /\ i > 1 /\ trace[b][i - 1].op = "recv_start"
        /\ trace[b][i].id =
               IF trace[b][i - 1].provider # "" THEN trace[b][i - 1].provider
               ELSE default_agent

\* the task that makes a call on the agent transport: send_audio is awaited
\* by media_stream (dialer.py 311), the upstream task; the reply to a ping
\* is sent inside receive(), which receive_from_agent iterates (dialer.py
\* 371), the downstream pump
TaskOf(entry) ==
    IF entry.kind = "pong" THEN "receive_from_agent" ELSE "media_stream"

\* C27: every write on the agent transport is made by the upstream task, so
\* no two tasks write to it
C27_SingleWriterOnAgentTransport ==
    \A i \in LogAt("ws.send") \cup LogAt("capture_frame") :
        TaskOf(agent.log[i]) = "media_stream"

\* C28: once the bridge has entered its cleanup, the cleanup completes, even
\* when agent_stream.close() does not return
C28_CleanupAlwaysCompletes ==
    \A b \in Bridges : (pc[b] = "finally") ~> (pc[b] = "done")

\* the call a dialer socket was opened for: the dialer connects the media
\* stream of one call, whose id its start events carry
CallOf(b) == "CA1"

\* C29: when the media-stream handler of a call returns, whether it has
\* processed a start event or not, the store holds no context for that call
C29_ContextGoneWhenHandlerReturns ==
    [][\A b \in Bridges :
          (/\ pc[b] # "done" /\ pc'[b] = "done"
           /\ \A i \in At(b, "recv_start") : trace[b][i].id = CallOf(b)) =>
              ~call_contexts'[CallOf(b)].some]_vars

\* the frames a stream's pump has sent on the dialer socket
SentFrames(b, s) ==
    SelectSeq(trace[b], LAMBDA e : e.op = "ws_send" /\ e.s = s /\ e.tag = "ok")

\* C30: the k-th media frame a stream's pump sends to the dialer socket is
\* the transcoding of the k-th audio event the agent stream emitted, under
\* the pump's stream id, and is sent before the (k+1)-th event is taken
C30_DownstreamOrderPreserved ==
    \A b \in Bridges : \A s \in 1..Len(streams[b]) :
        /\ Len(SentFrames(b, s)) <= Len(DownstreamIn(b, s))
        /\ \A k \in 1..Len(SentFrames(b, s)) :
               /\ SentFrames(b, s)[k].x =
                      lin2ulaw(ratecv(DownstreamIn(b, s)[k].x, 2, 1,
                                      FreshState(1)).out)
               /\ SentFrames(b, s)[k].id = streams[b][s].pump_stream_id
        /\ \A i \in At(b, "agent_event") :
               trace[b][i].tag = "audio" =>
                   /\ i < Len(trace[b])
                   /\ trace[b][i + 1].op = "ws_send"
                   /\ trace[b][i + 1].s = trace[b][i].s

\* a pump has sent two different frames, for two different audio events
C30_TwoFramesInOrder ==
    \E b \in Bridges : \E s \in 1..Len(streams[b]) :
        /\ Len(SentFrames(b, s)) >= 2
        /\ DownstreamIn(b, s)[1].x # DownstreamIn(b, s)[2].x
        /\ SentFrames(b, s)[1].x # SentFrames(b, s)[2].x

\* the tags the dialer's parser may return
CanonicalTags == {"start", "media", "stop", "mark", "unknown"}

\* C31: the dialer's parser returns for every decoded frame, without
\* raising, a record whose event_type is a canonical tag, and unknown for a
\* frame without an event
C31_WireParserTotal ==
    \A i \in 1..Len(parsed) :
        parsed[i].parser = "TwilioConnectionHandler" =>
            /\ ~parsed[i].result.raised
            /\ parsed[i].result.type \in CanonicalTags
            /\ parsed[i].frame.event = NoEvent =>
                   parsed[i].result.type = "unknown"

\* C32: parse_message on the JSON text of an audio message returns an AUDIO
\* event whose data is the decoded audio
C32_JsonAudioParsed ==
    \A i \in 1..Len(parsed) :
        (/\ parsed[i].parser = "PredixionAIMessageHandler"
         /\ parsed[i].message.kind = "str"
         /\ parsed[i].message.type = "audio") =>
            /\ parsed[i].result.type = "audio"
            /\ parsed[i].result.data = parsed[i].message.audio

\* C33: for each audio event the pump makes exactly one send on the dialer
\* socket, a media frame under the stream id of the start event that opened
\* the agent stream, and for an event of any other type it makes none
C33_OneFramePerAudioEvent ==
    \A b \in Bridges :
        /\ \A i \in At(b, "agent_event") :
               IF trace[b][i].tag = "audio"
               THEN /\ i < Len(trace[b])
                    /\ trace[b][i + 1].op = "ws_send"
                    /\ trace[b][i + 1].s = trace[b][i].s
                    /\ trace[b][i + 1].id = streams[b][trace[b][i].s].pump_stream_id
                    /\ \E j \in At(b, "recv_start") :
                           /\ j < i
                           /\ trace[b][j + 1].op = "connect"
                           /\ trace[b][j + 1].s = trace[b][i].s
               ELSE i < Len(trace[b]) => trace[b][i + 1].op # "ws_send"
        /\ \A j \in At(b, "ws_send") :
               /\ j > 1
               /\ trace[b][j - 1].op = "agent_event"
               /\ trace[b][j - 1].tag = "audio"
               /\ trace[b][j - 1].s = trace[b][j].s

\* a pump has taken a text event and then an audio event, and sent one frame
C33_TextThenAudio ==
    \E b \in Bridges : \E i \in At(b, "agent_event") :
        /\ trace[b][i].tag = "text"
        /\ i + 2 <= Len(trace[b])
        /\ trace[b][i + 1].op = "agent_event" /\ trace[b][i + 1].tag = "audio"
        /\ trace[b][i + 2].op = "ws_send" /\ trace[b][i + 2].tag = "ok"
        /\ Cardinality(At(b, "ws_send")) = 1

\* C34: a start event whose call-id has a stored context opens the agent
\* stream with that context's agent_id and dynamic_variables, whatever its
\* custom parameters; only without a stored context are the custom
\* parameters used
C34_StorePreferred ==
    [][\A b \in Bridges, c \in CallIds, sid \in StreamIds,
          custom_params \in CustomParams, o \in StartOutcomes \ {"connect_raises"} :
          (/\ media_stream_start(b, c, sid, custom_params, o)
           /\ Len(streams'[b]) = Len(streams[b]) + 1) =>
              LET stored == call_contexts[c]
                  stream == streams'[b][Len(streams'[b])]
              IN IF stored.some
                 THEN /\ stream.agent_id = stored.agent_id
                      /\ stream.dynamic_variables = stored.dynamic_variables
                 ELSE /\ ~DictIsEmpty(custom_params)
                      /\ stream.agent_id =
                             IF custom_params["agent_id"] = Absent
                             THEN DEFAULT_AGENT_ID
                             ELSE custom_params["agent_id"].s
                      /\ \A k \in Keys \ {"agent_id"} :
                             (stream.dynamic_variables[k] = Absent) <=>
                                 (custom_params[k] = Absent)]_vars

\* a start event has opened the agent stream of the context stored under
\* its call-id, and another the agent stream of its custom parameters
C34_StoredContextWon ==
    \E b \in Bridges : \E i \in At(b, "recv_start") :
        /\ trace[b][i].tag = "store"
        /\ \E s \in 1..Len(streams[b]) : streams[b][s].agent_id = "AG1"
        /\ i < Len(trace[b])
        /\ trace[b][i + 1].op = "connect" /\ trace[b][i + 1].tag = "ok"
        /\ streams[b][trace[b][i + 1].s].agent_id = "AG_IN"
        /\ streams[b][trace[b][i + 1].s].dynamic_variables["eligible"] = Bool(TRUE)

\* C36: when a bridge's cleanup has finished, close() has been called on
\* every agent stream the bridge obtained from connect(), also after more
\* than one start event
C36_EveryStreamClosed ==
    \A b \in Bridges :
        pc[b] = "done" =>
            \A s \in 1..Len(streams[b]) :
                \E i \in At(b, "agent_close") : trace[b][i].s = s

\* C37: once the bridge has closed the dialer socket, or the dialer has
\* disconnected, the downstream pump attempts no further send on that
\* socket
C37_NoSendAfterSocketGone ==
    \A b \in Bridges : \A i \in At(b, "ws_send") :
        \A j \in 1..(i - 1) :
            trace[b][j].op \notin {"ws_close", "recv_disconnect"}

\* C39: in the custom parameters of the outbound connection directive,
\* agent_id is the request's agent_id and to_number the request's
\* destination number, whatever keys dynamic_variables holds
C39_RequestFieldsInDirective ==
    outbound.some =>
        /\ outbound.custom_params["agent_id"] = Str(outbound.agent_id)
        /\ outbound.custom_params["to_number"] = Str(outbound.to_number)

\* the data of the entries of an operation among the first n entries of the
\* stream's log
ItemsBefore(op, n) ==
    LET sel == SelectSeq(SubSeq(agent.log, 1, n), LAMBDA e : e.op = op)
    IN [k \in 1..Len(sel) |-> sel[k].x]
IsPrefix(a, b) == Len(a) <= Len(b) /\ SubSeq(b, 1, Len(a)) = a
\* the first call of close() on the room-based stream after its
\* initialize() has returned, that is, on a stream the pump iterates
ClosesOfStartedStream ==
    LET closes == {c \in LogAt("close") :
                      /\ agent.provider = "predixionai"
                      /\ \E k \in 1..(c - 1) :
                             agent.log[k] = AEv("initialize", "", "returned", <<>>)}
    IN {c \in closes : \A c2 \in closes : c <= c2}
RoomStreamClosed == ClosesOfStartedStream # {}

C35_CallsIsolated ==
    [][\A b \in Handlers :
          /\ media_stream_cleanup(b) =>
                 \A c \in CallIds \ {call_id[b]} :
                     call_contexts'[c] = call_contexts[c]
          /\ HandlerStep(b) =>
                 \A other \in Handlers \ {b} :
                     /\ streams'[other] = streams[other]
                     /\ agent_stream'[other] = agent_stream[other]
                     /\ ws_state'[other] = ws_state[other]
                     /\ trace'[other] = trace[other]]_vars

\* one bridge has cleaned up its call while the context of the other call
\* is stored and the other bridge is running with an agent stream
C35_OtherCallUntouched ==
    \E b \in Handlers : \E other \in Handlers \ {b} :
        /\ pc[b] = "done"
        /\ \E i \in At(b, "ctx_delete") : trace[b][i].id = "CA1"
        /\ call_contexts["CA2"].some
        /\ pc[other] = "loop" /\ ws_state[other] = "open"
        /\ call_id[other] = "CA2"
        /\ streams[other] # <<>>

====
